---------------------------- MODULE Spec2Model ----------------------------
(***************************************************************************)
(* A model of the silvercoin signal backend (backend.py) and of the sniper *)
(* notifier (sniper_loop.py).                                              *)
(*                                                                         *)
(* Representation.                                                         *)
(*  - Python floats are modelled by exact integers and rationals.  A price *)
(*    is an integer number of ticks of 1e-4 (one pip), a confidence an     *)
(*    integer number of hundredths, a vote weight an integer number of     *)
(*    tenths, a time an integer number of seconds.  A rational is a pair   *)
(*    <<numerator, denominator>> with a positive denominator, compared by  *)
(*    cross multiplication, so float rounding is not modelled.             *)
(*  - Python's None is the empty tuple None for numbers and tuples and the *)
(*    reserved string NoneS for strings.                                   *)
(*  - A symbol spelling is the tuple of its characters, so that slicing    *)
(*    pair[:3] + "/" + pair[3:] is computed, not assumed.                  *)
(*  - Window sizes are scaled down so that TLC fills and overflows the     *)
(*    buffers: backend.py uses MAX_HISTORY 600, MIN_HISTORY 30, EMA 9/21,  *)
(*    SMA 3/8, RSI 14 (guarded by len >= 20 on the override path) and      *)
(*    Bollinger 20.  The scaled values keep the order relations of the     *)
(*    source: every period <= MIN_HISTORY <= MAX_HISTORY, both SMA windows *)
(*    are full before MIN_HISTORY prices are there (so the length guard of *)
(*    ensemble_decision decides something), and RSI period + 1 < the       *)
(*    override guard.  Thresholds, weights and times are the source's own. *)
(***************************************************************************)
EXTENDS Integers, Sequences, FiniteSets, TLC

(* ------------------------------ configuration -------------------------- *)

\* backend.py:23 (seconds)
POLL_SECONDS == 5
\* backend.py:24 (30 in the source, scaled)
MIN_HISTORY == 3
\* backend.py:25 (600 in the source, scaled)
MAX_HISTORY == 4
\* backend.py:26 (0.4, in hundredths)
CONF_THRESHOLD == 40
\* backend.py:27 (seconds); rebound to a dict by backend.py:266 before any use
COOLDOWN_CFG == 30
\* backend.py:268 (0.65, in hundredths)
MIN_CONFIDENCE == 65
\* backend.py:269 (seconds)
SIGNAL_COOLDOWN == 60
\* sniper_loop.py:107 (seconds)
SNIPER_SLEEP == 20

\* literals of ensemble_decision, backend.py:212-259
\* ema(prices_hist, 9) and ema(prices_hist, 21), scaled
EMA_FAST == 2
EMA_SLOW == 3
\* sma(prices_hist, 3) and sma(prices_hist, 8), scaled
SMA_FAST == 1
SMA_SLOW == 2
\* rsi(prices_hist, 14), scaled; the override path asks for len >= 20, scaled
RSI_PERIOD == 2
RSI_GUARD == 4
\* bollinger(prices_hist, 20, 2): the period is scaled, the multiplier is not
BB_PERIOD == 3
BB_MULT == 2
\* vote weights 1.2, 0.6, 0.9, 0.7 in tenths
W_EMA == 12
W_SMA == 6
W_RSI == 9
W_BB == 7
\* RSI thresholds
RSI_BUY_BELOW == 30
RSI_SELL_ABOVE == 70
RSI_DAMP_BUY == 80
RSI_DAMP_SELL == 20
\* bnorm - snorm > 0.25 is 4 * (vote_buy - vote_sell) > total
DIFF_INV == 4
\* the 1e-8 of rsi in ticks of 1e-4: 1 / EPS_INV
EPS_INV == 10000
\* default confidence of an external signal, 0.7 in hundredths
EXT_DEFAULT_CONF == 70

(* ------------------------------ bounds --------------------------------- *)

\* the clock of the polling loop's specification stops here
MaxClock == 15
\* the clock of the application's specification stops here
MaxAppClock == 10
\* the longest list of external signals one fetch returns
MaxExt == 1
\* bot_loop tasks ever created
MaxTasks == 2
\* appends of the history-only specification
MaxAppends == 7
\* the seconds a sleep of the late polling loop overruns, and where the
\* clock of that specification stops
MaxLate == 30
MaxLateClock == 70

(* ------------------------------ values --------------------------------- *)

None == <<>>
NoneS == "None"

\* time.time() when the process starts, in seconds: some positive number
\* (the initial last_signal_time of backend.py:34 is 0); every clock bound
\* counts from here
StartTime == 1

EURUSD == <<"E", "U", "R", "/", "U", "S", "D">>
GBPUSD == <<"G", "B", "P", "/", "U", "S", "D">>
AUDUSD == <<"A", "U", "D", "/", "U", "S", "D">>

\* backend.py:22, in order
PAIRS == <<EURUSD, GBPUSD>>
PairSet == {PAIRS[i] : i \in 1..Len(PAIRS)}

\* sniper_loop.py:23, in order
SNIPER_PAIRS == <<EURUSD, AUDUSD>>
SniperPairSet == {SNIPER_PAIRS[i] : i \in 1..Len(SNIPER_PAIRS)}

\* prices the source delivers, in ticks
Prices == {1, 2}

Max(a, b) == IF a >= b THEN a ELSE b

RECURSIVE SumSeq(_)
SumSeq(s) == IF s = <<>> THEN 0 ELSE Head(s) + SumSeq(Tail(s))

RECURSIVE SumSq(_)
SumSq(s) == IF s = <<>> THEN 0 ELSE Head(s) * Head(s) + SumSq(Tail(s))

\* list(arr)[-n:]
LastN(s, n) == IF Len(s) <= n THEN s ELSE SubSeq(s, Len(s) - n + 1, Len(s))

\* a > b for rationals
RatGT(a, b) == a[1] * b[2] > b[1] * a[2]
\* Python truthiness of an optional float: not None and not 0.0
Truthy(r) == r # None /\ r[1] # 0
\* Python truthiness of an optional string: not None and not ""
TruthyS(s) == s # NoneS /\ s # ""

(* ------------------------------ indicators ----------------------------- *)

sma(arr, period) ==
    IF Len(arr) < period THEN None
    ELSE <<SumSeq(LastN(arr, period)), period>>

\* v = x * k + v * (1 - k) with k = 2 / (period + 1)
RECURSIVE EmaFold(_, _, _)
EmaFold(v, xs, period) ==
    IF xs = <<>> THEN v
    ELSE EmaFold(<<2 * Head(xs) * v[2] + (period - 1) * v[1], (period + 1) * v[2]>>,
                 Tail(xs), period)

ema(arr, period) ==
    IF Len(arr) < period THEN None
    ELSE EmaFold(<<Head(LastN(arr, period)), 1>>, Tail(LastN(arr, period)), period)

RECURSIVE Gains(_)
Gains(a) ==
    IF Len(a) < 2 THEN 0
    ELSE (IF a[2] - a[1] > 0 THEN a[2] - a[1] ELSE 0) + Gains(Tail(a))

RECURSIVE Losses(_)
Losses(a) ==
    IF Len(a) < 2 THEN 0
    ELSE (IF a[2] - a[1] > 0 THEN 0 ELSE a[1] - a[2]) + Losses(Tail(a))

\* 100 - 100 / (1 + avg_g / avg_l) = 100 * avg_g / (avg_g + avg_l)
RsiRatio(avg_g, avg_l) == <<100 * avg_g, avg_g + avg_l>>

\* avg_g = gains / period if gains else 1e-8, avg_l alike, both over the
\* common denominator period * EPS_INV
RsiOf(gains, losses, period) ==
    RsiRatio(IF gains # 0 THEN gains * EPS_INV ELSE period,
             IF losses # 0 THEN losses * EPS_INV ELSE period)

rsi(arr, period) ==
    IF Len(arr) < period + 1 THEN None
    ELSE RsiOf(Gains(LastN(arr, period + 1)), Losses(LastN(arr, period + 1)), period)

\* (low, mid, up) = (mid - mult * sd, mid, mid + mult * sd) is kept as the
\* exact quantities it is made of: mid = s / period, sd^2 = v / period^2,
\* for the sum s and the sum of squares q of the window
Bands(s, q, period, mult) ==
    [s |-> s, v |-> period * q - s * s, period |-> period, mult |-> mult]

bollinger(arr, period, mult) ==
    IF Len(arr) < period THEN None
    ELSE Bands(SumSeq(LastN(arr, period)), SumSq(LastN(arr, period)), period, mult)

\* d / period > mult * sd
Beyond(d, bb) == d > 0 /\ d * d > bb.mult * bb.mult * bb.v
\* last < low, i.e. mid - last > mult * sd
BelowLow(last, bb) == Beyond(bb.s - bb.period * last, bb)
\* last > up, i.e. last - mid > mult * sd
AboveUp(last, bb) == Beyond(bb.period * last - bb.s, bb)

(* ------------------------------ ensemble ------------------------------- *)

\* str.upper() on the action spellings of the model
Upper(a) ==
    CASE a = "buy" -> "BUY"
      [] a = "sell" -> "SELL"
      [] OTHER -> a

\* backend.py:213-217: the confidence is halved when the hint contradicts
\* an extreme RSI
Damp(action, conf, r) ==
    IF r # None /\ ( (action = "BUY" /\ RatGT(r, <<RSI_DAMP_BUY, 1>>))
                  \/ (action = "SELL" /\ RatGT(<<RSI_DAMP_SELL, 1>>, r)) )
    THEN conf \div 2
    ELSE conf

\* backend.py:218
Accept(action, conf) == <<IF conf >= CONF_THRESHOLD THEN action ELSE NoneS, conf>>

\* the override branch, backend.py:209-218; ext_signal is [action, confidence]
OverrideDecision(ext_signal, prices_hist) ==
    Accept(Upper(ext_signal.action),
           Damp(Upper(ext_signal.action), ext_signal.confidence,
                IF Len(prices_hist) >= RSI_GUARD THEN rsi(prices_hist, RSI_PERIOD)
                ELSE None))

\* backend.py:232-251, the buy side
VoteBuy(last, e9, e21, s3, s8, r, bb) ==
      (IF Truthy(e9) /\ Truthy(e21) /\ RatGT(e9, e21) THEN W_EMA ELSE 0)
    + (IF Truthy(s3) /\ Truthy(s8) /\ RatGT(s3, s8) THEN W_SMA ELSE 0)
    + (IF r # None /\ RatGT(<<RSI_BUY_BELOW, 1>>, r) THEN W_RSI ELSE 0)
    + (IF bb # None /\ BelowLow(last, bb) THEN W_BB ELSE 0)

\* backend.py:232-251, the sell side
VoteSell(last, e9, e21, s3, s8, r, bb) ==
      (IF Truthy(e9) /\ Truthy(e21) /\ ~RatGT(e9, e21) THEN W_EMA ELSE 0)
    + (IF Truthy(s3) /\ Truthy(s8) /\ ~RatGT(s3, s8) THEN W_SMA ELSE 0)
    + (IF r # None /\ RatGT(r, <<RSI_SELL_ABOVE, 1>>) THEN W_RSI ELSE 0)
    + (IF bb # None /\ AboveUp(last, bb) THEN W_BB ELSE 0)

vote_buy(prices_hist) ==
    VoteBuy(prices_hist[Len(prices_hist)],
            ema(prices_hist, EMA_FAST), ema(prices_hist, EMA_SLOW),
            sma(prices_hist, SMA_FAST), sma(prices_hist, SMA_SLOW),
            rsi(prices_hist, RSI_PERIOD), bollinger(prices_hist, BB_PERIOD, BB_MULT))

vote_sell(prices_hist) ==
    VoteSell(prices_hist[Len(prices_hist)],
             ema(prices_hist, EMA_FAST), ema(prices_hist, EMA_SLOW),
             sma(prices_hist, SMA_FAST), sma(prices_hist, SMA_SLOW),
             rsi(prices_hist, RSI_PERIOD), bollinger(prices_hist, BB_PERIOD, BB_MULT))

\* vote / (vote_buy + vote_sell + 1e-9) in hundredths; 0 when nothing voted
Norm(v, total) == IF total = 0 THEN 0 ELSE (100 * v) \div total

\* backend.py:253-260
Decide(vb, vs) ==
    IF DIFF_INV * (vb - vs) > vb + vs THEN <<"BUY", Norm(vb, vb + vs)>>
    ELSE IF DIFF_INV * (vs - vb) > vb + vs THEN <<"SELL", Norm(vs, vb + vs)>>
    ELSE <<NoneS, Max(Norm(vb, vb + vs), Norm(vs, vb + vs))>>

\* a faulty length guard: one price too few is let through
IndicatorDecisionOffByOne(prices_hist) ==
    IF Len(prices_hist) < MIN_HISTORY - 1 THEN <<NoneS, 0>>
    ELSE Decide(vote_buy(prices_hist), vote_sell(prices_hist))

\* the indicator branch, backend.py:220-260
IndicatorDecision(prices_hist) ==
    IF Len(prices_hist) < MIN_HISTORY THEN <<NoneS, 0>>
    ELSE Decide(vote_buy(prices_hist), vote_sell(prices_hist))

\* ensemble_decision(pair, ext_signal, prices_hist) -> (decision, confidence);
\* ext_signal is None or the dict bot_loop builds, which is never empty
ensemble_decision(pair, ext_signal, prices_hist) ==
    IF ext_signal # None THEN OverrideDecision(ext_signal, prices_hist)
    ELSE IndicatorDecision(prices_hist)

(* ------------------------------ state ---------------------------------- *)

VARIABLES
    \* backend.py:32-38, the runtime state of the backend
    history, last_signal, last_signal_time, bot_running, bot_task,
    external_signal_url,
    \* the bot_loop tasks ever created (position, locals) and the aiohttp
    \* application's life cycle
    task, app,
    \* /signal requests suspended in await tg_send
    manual,
    \* time.time(), in seconds
    clock,
    \* backend.py:265-266, the dicts of should_send_signal
    LAST_SIGNAL, COOLDOWN,
    \* observation of should_send_signal: its last call and result, the
    \* number of calls, the time of the last call that returned True
    gate_last, gate_n, gate_emit_at,
    \* observation of bot_loop: per pair the time of its last emission
    loop_emit_at,
    \* observation of the history: every price appended, per pair
    appended,
    \* sniper_loop.py: position, pair index, the last_signal dict, the
    \* (signal, datetime) of the messages sent per pair, the number of
    \* fetches made, and the last iteration: its pair, the response it
    \* fetched and whether it sent a message
    sn_pc, sn_i, sn_last_signal, sn_sent, sn_n, sn_fetched,
    \* ensemble_decision on its own: the series it is called on and its
    \* last call on that series (the hint and the returned pair)
    ens_hist, ens_call

vars ==
    <<history, last_signal, last_signal_time, bot_running, bot_task,
      external_signal_url, task, app, manual, clock, LAST_SIGNAL, COOLDOWN,
      gate_last, gate_n, gate_emit_at, loop_emit_at, appended,
      sn_pc, sn_i, sn_last_signal, sn_sent, sn_n, sn_fetched, ens_hist,
      ens_call>>

backend_vars ==
    <<history, last_signal, last_signal_time, bot_running, bot_task,
      external_signal_url, task, app, manual, loop_emit_at>>

gate_vars == <<LAST_SIGNAL, COOLDOWN, gate_last, gate_n, gate_emit_at>>

sniper_vars == <<sn_pc, sn_i, sn_last_signal, sn_sent, sn_n, sn_fetched>>

ens_vars == <<ens_hist, ens_call>>

(* ------------------------------ the gate ------------------------------- *)

\* calls of should_send_signal the gate specification makes
MaxCalls == 4
\* the gate specification's clock stops here
MaxGateClock == 80
TickSteps == {10, 60}
Directions == {"BUY", "SELL", NoneS}
Confidences == {50, 80}

\* dict[key] = value
Put(d, k, v) == [x \in DOMAIN d \cup {k} |-> IF x = k THEN v ELSE d[x]]

\* a faulty should_send_signal: the direction test comes before the cooldown
\* test, so a change of direction is let through within the cooldown
should_send_signal_direction_first(symbol, direction, confidence, now, ls, cd) ==
    IF confidence < MIN_CONFIDENCE
    THEN [ret |-> FALSE, ls |-> ls, cd |-> cd]
    ELSE IF symbol \notin DOMAIN ls \/ ls[symbol] # direction
    THEN [ret |-> TRUE, ls |-> Put(ls, symbol, direction), cd |-> Put(cd, symbol, now)]
    ELSE [ret |-> FALSE, ls |-> ls, cd |-> cd]

\* a faulty should_send_signal: a symbol's first signal is let through
\* before its confidence is tested
should_send_signal_first_unchecked(symbol, direction, confidence, now, ls, cd) ==
    IF symbol \notin DOMAIN ls
    THEN [ret |-> TRUE, ls |-> Put(ls, symbol, direction), cd |-> Put(cd, symbol, now)]
    ELSE IF confidence < MIN_CONFIDENCE \/ now - cd[symbol] < SIGNAL_COOLDOWN
    THEN [ret |-> FALSE, ls |-> ls, cd |-> cd]
    ELSE IF ls[symbol] # direction
    THEN [ret |-> TRUE, ls |-> Put(ls, symbol, direction), cd |-> Put(cd, symbol, now)]
    ELSE [ret |-> FALSE, ls |-> ls, cd |-> cd]

\* a faulty should_send_signal: once the cooldown elapsed every confident
\* call is let through, a repeated direction too
should_send_signal_no_direction_test(symbol, direction, confidence, now, ls, cd) ==
    IF confidence < MIN_CONFIDENCE
    THEN [ret |-> FALSE, ls |-> ls, cd |-> cd]
    ELSE IF symbol \notin DOMAIN ls
    THEN [ret |-> TRUE, ls |-> Put(ls, symbol, direction), cd |-> Put(cd, symbol, now)]
    ELSE IF now - cd[symbol] < SIGNAL_COOLDOWN
    THEN [ret |-> FALSE, ls |-> ls, cd |-> cd]
    ELSE [ret |-> TRUE, ls |-> Put(ls, symbol, direction), cd |-> Put(cd, symbol, now)]

\* a faulty should_send_signal: a call suppressed for its repeated
\* direction restarts the symbol's cooldown
should_send_signal_restarts_cooldown(symbol, direction, confidence, now, ls, cd) ==
    IF confidence < MIN_CONFIDENCE
    THEN [ret |-> FALSE, ls |-> ls, cd |-> cd]
    ELSE IF symbol \notin DOMAIN ls
    THEN [ret |-> TRUE, ls |-> Put(ls, symbol, direction), cd |-> Put(cd, symbol, now)]
    ELSE IF now - cd[symbol] < SIGNAL_COOLDOWN
    THEN [ret |-> FALSE, ls |-> ls, cd |-> cd]
    ELSE IF ls[symbol] # direction
    THEN [ret |-> TRUE, ls |-> Put(ls, symbol, direction), cd |-> Put(cd, symbol, now)]
    ELSE [ret |-> FALSE, ls |-> ls, cd |-> Put(cd, symbol, now)]

\* should_send_signal(symbol, direction, confidence) with now = time.time();
\* the result is the return value and the two dicts after the call
should_send_signal(symbol, direction, confidence, now, ls, cd) ==
    IF confidence < MIN_CONFIDENCE
    THEN [ret |-> FALSE, ls |-> ls, cd |-> cd]
    ELSE IF symbol \notin DOMAIN ls
    THEN [ret |-> TRUE, ls |-> Put(ls, symbol, direction), cd |-> Put(cd, symbol, now)]
    ELSE IF now - cd[symbol] < SIGNAL_COOLDOWN
    THEN [ret |-> FALSE, ls |-> ls, cd |-> cd]
    ELSE IF ls[symbol] # direction
    THEN [ret |-> TRUE, ls |-> Put(ls, symbol, direction), cd |-> Put(cd, symbol, now)]
    ELSE [ret |-> FALSE, ls |-> ls, cd |-> cd]

\* one call of should_send_signal
GateCall(symbol, direction, confidence) ==
    /\ gate_n < MaxCalls
    /\ LET r == should_send_signal(symbol, direction, confidence, clock, LAST_SIGNAL, COOLDOWN)
       IN  /\ LAST_SIGNAL' = r.ls
           /\ COOLDOWN' = r.cd
           /\ gate_last' = [symbol |-> symbol, direction |-> direction,
                            confidence |-> confidence, now |-> clock, ret |-> r.ret]
           /\ gate_n' = gate_n + 1
           /\ gate_emit_at' = IF r.ret THEN [gate_emit_at EXCEPT ![symbol] = clock]
                              ELSE gate_emit_at
    /\ UNCHANGED <<backend_vars, clock, appended, sniper_vars,
                   ens_vars>>

\* time passes between two calls
GateTick(d) ==
    /\ clock + d <= StartTime + MaxGateClock
    /\ clock' = clock + d
    /\ UNCHANGED <<backend_vars, gate_vars, appended, sniper_vars,
                   ens_vars>>

(* ------------------------------ price history -------------------------- *)

\* a faulty append: a list that is never trimmed
DequeAppendUnbounded(h, x) == Append(h, x)

\* deque(maxlen=MAX_HISTORY).append(x)
DequeAppend(h, x) ==
    IF Len(h) < MAX_HISTORY THEN Append(h, x) ELSE Append(Tail(h), x)

\* a faulty append of the fetched prices: a pair without a price gets its
\* last known price again
AppendPricesCarry(hist, prices) ==
    [p \in PairSet |-> IF prices[p] # None THEN DequeAppend(hist[p], prices[p][1])
                       ELSE IF hist[p] # <<>>
                       THEN DequeAppend(hist[p], hist[p][Len(hist[p])])
                       ELSE hist[p]]

\* backend.py:307-310; prices[p] is None or <<price>>
AppendPrices(hist, prices) ==
    [p \in PairSet |-> IF prices[p] # None THEN DequeAppend(hist[p], prices[p][1])
                       ELSE hist[p]]

\* backend.py:305-310 alone: one fetch of the price source and the appends
\* that follow it, with every appended price recorded
HistoryAppend(results) ==
    /\ \A p \in PairSet : Len(appended[p]) < MaxAppends
    /\ history' = AppendPrices(history, results)
    /\ appended' = [p \in PairSet |->
                      IF results[p] # None THEN Append(appended[p], results[p][1])
                      ELSE appended[p]]
    /\ UNCHANGED <<last_signal, last_signal_time, bot_running, bot_task,
                   external_signal_url, task, app, manual, loop_emit_at, clock,
                   gate_vars, sniper_vars,
                   ens_vars>>

(* ------------------------------ symbols -------------------------------- *)

HasSlash(s) == \E k \in 1..Len(s) : s[k] = "/"

\* pair[:3] + "/" + pair[3:]
InsertSlash(s) ==
    SubSeq(s, 1, IF Len(s) < 3 THEN Len(s) ELSE 3) \o <<"/">> \o SubSeq(s, 4, Len(s))

\* if "/" not in pair and len(pair) >= 6: pair = pair[:3] + "/" + pair[3:]
Normalize(s) == IF ~HasSlash(s) /\ Len(s) >= 6 THEN InsertSlash(s) ELSE s

\* the spelling of a pair without its separator
NoSlash(p) == SubSeq(p, 1, 3) \o SubSeq(p, 5, Len(p))

(* ------------------------------ price source --------------------------- *)

OptPrices == {None} \cup {<<x>> : x \in Prices}
NoResults == [p \in PairSet |-> None]

\* the key a multi-symbol response's entry is stored under, backend.py:162-176
MultiKey(k) ==
    IF k \in PairSet THEN k
    ELSE IF Len(k) >= 6 /\ ~HasSlash(k) THEN InsertSlash(k) ELSE k

\* fetch_prices(PAIRS) on one HTTP outcome: whether it raised, and its result
fetch_prices(resp) ==
    CASE resp.kind \in {"neterr", "badjson", "error"} ->
           [raised |-> FALSE, results |-> NoResults]
      [] resp.kind = "single" ->
           IF ~resp.symbol_str THEN [raised |-> TRUE, results |-> NoResults]
           ELSE LET key == IF HasSlash(resp.symbol) THEN resp.symbol
                           ELSE InsertSlash(resp.symbol)
                IN  [raised |-> FALSE,
                     results |-> [p \in PairSet |-> IF p = key THEN resp.price ELSE None]]
      [] OTHER ->
           [raised |-> FALSE,
            results |-> [p \in PairSet |->
                IF \E k \in DOMAIN resp.data : MultiKey(k) = p
                THEN resp.data[CHOOSE k \in DOMAIN resp.data : MultiKey(k) = p]
                ELSE None]]

Resp(kind, symbol_str, symbol, price, data) ==
    [kind |-> kind, symbol_str |-> symbol_str, symbol |-> symbol, price |-> price,
     data |-> data]

\* the HTTP outcomes of the price source: failures, a single-symbol answer
\* (its symbol a string or not), a multi-symbol answer keyed with or
\* without the separator; a price of None is a missing or non-numeric one
Responses ==
    {Resp(k, TRUE, EURUSD, None, <<>>) : k \in {"neterr", "badjson", "error"}}
    \cup {Resp("single", FALSE, EURUSD, <<1>>, <<>>),
          Resp("single", TRUE, EURUSD, <<1>>, <<>>),
          Resp("single", TRUE, NoSlash(GBPUSD), <<2>>, <<>>)}
    \cup {Resp("multi", TRUE, EURUSD, None, d) : d \in [PairSet -> OptPrices]}
    \cup {Resp("multi", TRUE, EURUSD, None, [k \in {NoSlash(p) : p \in PairSet} |-> <<2>>])}

\* what `await fetch_prices(PAIRS)` can come back with
FetchOutcomes == {fetch_prices(resp) : resp \in Responses}

(* ------------------------------ external signals ----------------------- *)

ExtEntry(pair, action, confidence) ==
    [pair |-> pair, action |-> action, confidence |-> confidence]

\* the external signals of the model: both directions for one pair, a pair
\* spelled without its separator, a confidence below CONF_THRESHOLD, a
\* pair spelled in lower case
ExtEntries ==
    {ExtEntry(EURUSD, "BUY", EXT_DEFAULT_CONF), ExtEntry(EURUSD, "sell", EXT_DEFAULT_CONF),
     ExtEntry(NoSlash(GBPUSD), "BUY", EXT_DEFAULT_CONF), ExtEntry(EURUSD, "BUY", 30),
     ExtEntry(<<"e", "u", "r", "u", "s", "d">>, "BUY", EXT_DEFAULT_CONF)}

RECURSIVE SeqsUpTo(_, _)
SeqsUpTo(S, n) ==
    IF n = 0 THEN {<<>>}
    ELSE LET shorter == SeqsUpTo(S, n - 1)
         IN  shorter \cup {Append(q, x) : q \in shorter, x \in S}

\* what fetch_external_signal returns: [] without a url or on an error
ExtLists == SeqsUpTo(ExtEntries, MaxExt)

(* ------------------------------ bot_loop ------------------------------- *)

Tasks == 1..MaxTasks
TgStates == {"tg_ext", "tg_ind"}
NoMsg == [pair |-> EURUSD, dec |-> NoneS, conf |-> 0, source |-> "none"]

\* a task that was not created yet
IdleTask ==
    [status |-> "unborn", pc |-> "none", ext_list |-> <<>>, prices |-> NoResults,
     i |-> 0, j |-> 0, handled_pairs |-> {}, msg |-> NoMsg, tg |-> "none",
     err |-> "none", skipped |-> {}]

\* a faulty emission test: a decision is emitted whether or not it repeats
\* the recorded direction
EmitCheckRepeats(dec, last) == IF ~TruthyS(dec) THEN "skip" ELSE "emit"

\* the emission test of backend.py:328 and 341,
\*   dec and (dec != last_signal[p] or now - last_signal_time[p] > COOLDOWN):
\* COOLDOWN is the dict of backend.py:266 by the time bot_loop runs, so the
\* comparison of a float with it raises TypeError whenever it is evaluated
EmitCheck(dec, last) ==
    IF ~TruthyS(dec) THEN "skip"
    ELSE IF dec # last THEN "emit"
    ELSE "TypeError"

Outcome(kind, phase, i, j, handled, pair, dec, conf) ==
    [kind |-> kind, phase |-> phase, i |-> i, j |-> j, handled |-> handled,
     pair |-> pair, dec |-> dec, conf |-> conf]

RECURSIVE RunInd(_, _, _, _)

\* backend.py:341-347 for PAIRS[j], its emission test having come out as e
IndGate(j, handled, ls, hist, d, e) ==
    IF e = "emit" THEN Outcome("emit", "ind", 0, j, handled, PAIRS[j], d[1], d[2])
    ELSE IF e = "TypeError" THEN Outcome("error", "ind", 0, j, handled, PAIRS[j], d[1], d[2])
    ELSE RunInd(j + 1, handled, ls, hist)

\* backend.py:336-347 from PAIRS[j] on, up to the first await tg_send, the
\* first exception or the end of the loop
RunInd(j, handled, ls, hist) ==
    IF j > Len(PAIRS) THEN Outcome("end", "ind", 0, 0, handled, EURUSD, NoneS, 0)
    ELSE IF PAIRS[j] \in handled THEN RunInd(j + 1, handled, ls, hist)
    ELSE IndGate(j, handled, ls, hist,
                 ensemble_decision(PAIRS[j], None, hist[PAIRS[j]]),
                 EmitCheck(ensemble_decision(PAIRS[j], None, hist[PAIRS[j]])[1],
                           ls[PAIRS[j]]))

RECURSIVE RunExt(_, _, _, _, _)

\* backend.py:328-334 for ext_list[i], its emission test having come out as e
ExtGate(ext_list, i, handled, ls, hist, pair, d, e) ==
    IF e = "emit" THEN Outcome("emit", "ext", i, 0, handled, pair, d[1], d[2])
    ELSE IF e = "TypeError" THEN Outcome("error", "ext", i, 0, handled, pair, d[1], d[2])
    ELSE RunExt(ext_list, i + 1, handled, ls, hist)

\* backend.py:321-327 for ext_list[i], whose pair is one of PAIRS
ExtDecide(ext_list, i, handled, ls, hist, pair, ext_signal) ==
    ExtGate(ext_list, i, handled \cup {pair}, ls, hist, pair,
            ensemble_decision(pair, ext_signal, hist[pair]),
            EmitCheck(ensemble_decision(pair, ext_signal, hist[pair])[1], ls[pair]))

\* backend.py:313-334 from ext_list[i] on, then the indicator loop
RunExt(ext_list, i, handled, ls, hist) ==
    IF i > Len(ext_list) THEN RunInd(1, handled, ls, hist)
    ELSE IF ext_list[i].pair = <<>> \/ Normalize(ext_list[i].pair) \notin PairSet
    THEN RunExt(ext_list, i + 1, handled, ls, hist)
    ELSE ExtDecide(ext_list, i, handled, ls, hist, Normalize(ext_list[i].pair),
                   [action |-> Upper(ext_list[i].action),
                    confidence |-> ext_list[i].confidence])

\* the pairs of the cycle that an exception left without a decision: the
\* except clause of backend.py:349 ends the whole cycle
Skipped(r) ==
    IF r.kind # "error" THEN {}
    ELSE IF r.phase = "ind"
    THEN {PAIRS[k] : k \in (r.j + 1)..Len(PAIRS)} \ r.handled
    ELSE PairSet \ r.handled

\* the task's record after the synchronous code ran to outcome r
TaskAfter(tk, r) ==
    IF r.kind = "emit"
    THEN [tk EXCEPT !.pc = IF r.phase = "ext" THEN "tg_ext" ELSE "tg_ind",
                    !.i = r.i, !.j = r.j, !.handled_pairs = r.handled,
                    !.msg = [pair |-> r.pair, dec |-> r.dec, conf |-> r.conf,
                             source |-> IF r.phase = "ext" THEN "external"
                                        ELSE "indicators"]]
    ELSE [tk EXCEPT !.pc = "sleep", !.ext_list = <<>>, !.i = 0, !.j = 0,
                    !.handled_pairs = {}, !.msg = NoMsg,
                    !.err = (IF r.kind = "error" THEN r.phase ELSE "none"),
                    !.skipped = Skipped(r)]

\* backend.py:329-330 (342-343): the gate state an emission records
RecordSignal(ls, r) == IF r.kind = "emit" THEN [ls EXCEPT ![r.pair] = r.dec] ELSE ls

\* a faulty recording: the time of the emission is not written before the
\* await of tg_send
RecordTimeLater(lt, r, now) == lt

\* backend.py:330 (343): the time an emission records
RecordTime(lt, r, now) == IF r.kind = "emit" THEN [lt EXCEPT ![r.pair] = now] ELSE lt

\* a faulty handling of tg_send's result: a failed delivery forgets the
\* signal it was for
after_send_rollback(ok, ls, pair) == IF ok THEN ls ELSE [ls EXCEPT ![pair] = NoneS]

\* backend.py:333-334 (346-347): tg_send's result is dropped, a failed
\* delivery changes nothing
after_send(ok, ls, pair) == ls

\* the head of `while bot_running`, backend.py:302; a cycle starts or the
\* loop ends
LoopHead(tk) ==
    IF bot_running
    THEN [tk EXCEPT !.pc = "fetch_ext", !.ext_list = <<>>, !.prices = NoResults,
                    !.i = 0, !.j = 0, !.handled_pairs = {}, !.msg = NoMsg,
                    !.tg = "none", !.err = "none", !.skipped = {}]
    ELSE [IdleTask EXCEPT !.status = "stopped", !.pc = "done"]

\* the task's first step, backend.py:301-304
BotEnter(t) ==
    /\ task[t].status = "alive" /\ task[t].pc = "start"
    /\ task' = [task EXCEPT ![t] = LoopHead(task[t])]
    /\ UNCHANGED <<history, last_signal, last_signal_time, bot_running, bot_task,
                   external_signal_url, app, manual, loop_emit_at, clock,
                   gate_vars, appended, sniper_vars,
                   ens_vars>>

\* await fetch_external_signal() returns, backend.py:304
BotFetchExternal(t, ext) ==
    /\ task[t].status = "alive" /\ task[t].pc = "fetch_ext"
    /\ external_signal_url = "" => ext = <<>>
    /\ task' = [task EXCEPT ![t].pc = "fetch_prices", ![t].ext_list = ext]
    /\ UNCHANGED <<history, last_signal, last_signal_time, bot_running, bot_task,
                   external_signal_url, app, manual, loop_emit_at, clock,
                   gate_vars, appended, sniper_vars,
                   ens_vars>>

\* the synchronous code of task t ran to outcome r, from the task record
\* tk, the history hist and the last_signal ls
Ran(t, tk, hist, ls, r) ==
    /\ history' = hist
    /\ last_signal' = RecordSignal(ls, r)
    /\ last_signal_time' = RecordTime(last_signal_time, r, clock)
    /\ loop_emit_at' = RecordTime(loop_emit_at, r, clock)
    /\ task' = [task EXCEPT ![t] = TaskAfter(tk, r)]
    /\ UNCHANGED <<bot_running, bot_task, external_signal_url, app, manual, clock,
                   gate_vars, appended, sniper_vars,
                   ens_vars>>

\* backend.py:305-347 on the result f of fetch_prices: an exception of
\* fetch_prices ends the cycle in the except clause, else the prices are
\* appended and the signals processed
Fetched(t, f) ==
    IF f.raised
    THEN Ran(t, [task[t] EXCEPT !.prices = f.results], history, last_signal,
             Outcome("error", "fetch", 0, 0, {}, EURUSD, NoneS, 0))
    ELSE Ran(t, [task[t] EXCEPT !.prices = f.results],
             AppendPrices(history, f.results), last_signal,
             RunExt(task[t].ext_list, 1, {}, last_signal,
                    AppendPrices(history, f.results)))

\* await fetch_prices(PAIRS) comes back with f (its result, or that it
\* raised), then backend.py:306-347 up to the first await tg_send
BotFetchPrices(t, f) ==
    /\ task[t].status = "alive" /\ task[t].pc = "fetch_prices"
    /\ Fetched(t, f)

\* backend.py:334-347 after tg_send returned, with last_signal as ls
Sent(t, tk, ls) ==
    Ran(t, tk, history, ls,
        IF tk.pc = "tg_ext"
        THEN RunExt(tk.ext_list, tk.i + 1, tk.handled_pairs, ls, history)
        ELSE RunInd(tk.j + 1, tk.handled_pairs, ls, history))

\* await tg_send(msg) returns ok, then the code up to the next await
BotSendDone(t, ok) ==
    /\ task[t].status = "alive" /\ task[t].pc \in TgStates
    /\ Sent(t, [task[t] EXCEPT !.tg = IF ok THEN "ok" ELSE "failed"],
            after_send(ok, last_signal, task[t].msg.pair))

\* await asyncio.sleep(POLL_SECONDS) returns, backend.py:351, and the loop
\* tests bot_running again; the task is resumed POLL_SECONDS later or, on
\* a busy event loop, `late` seconds after that
BotSleepDone(t, late, limit) ==
    /\ task[t].status = "alive" /\ task[t].pc = "sleep"
    /\ clock + POLL_SECONDS + late <= StartTime + limit
    /\ clock' = clock + POLL_SECONDS + late
    /\ task' = [task EXCEPT ![t] = LoopHead(task[t])]
    /\ UNCHANGED <<history, last_signal, last_signal_time, bot_running, bot_task,
                   external_signal_url, app, manual, loop_emit_at,
                   gate_vars, appended, sniper_vars,
                   ens_vars>>

(* ------------------------------ life cycle and handlers ---------------- *)

\* the /signal requests that may wait for tg_send at the same time
MaxManual == 1
ManualPairs == {NoSlash(GBPUSD)}
ManualActions == {"sell"}

\* asyncio.create_task(bot_loop()): the next task that was never created
NewTask == CHOOSE t \in Tasks : task[t].status = "unborn" /\ \A u \in 1..(t - 1) : task[u].status # "unborn"
CanCreate == \E t \in Tasks : task[t].status = "unborn"
Created(tk) == [tk EXCEPT ![NewTask] = [IdleTask EXCEPT !.status = "alive", !.pc = "start"]]

\* bot_task.cancel(): CancelledError is thrown into the task at the await it
\* is suspended in and no handler of bot_loop catches it; no effect on a
\* task that ended
Cancelled(tk, t) ==
    IF t # 0 /\ tk[t].status = "alive"
    THEN [tk EXCEPT ![t] = [IdleTask EXCEPT !.status = "cancelled", !.pc = "done"]]
    ELSE tk

\* a faulty /start: the task is created whether or not one is running
StartAlways(running) == TRUE

\* `if not bot_running:` of /start, backend.py:366
StartCreates(running) == ~running

\* on_startup, backend.py:434-440
OnStartup ==
    /\ app = "init" /\ CanCreate
    /\ app' = "serving"
    /\ bot_running' = TRUE
    /\ bot_task' = NewTask
    /\ task' = Created(task)
    /\ UNCHANGED <<history, last_signal, last_signal_time, external_signal_url,
                   manual, loop_emit_at, clock, gate_vars, appended, sniper_vars,
                   ens_vars>>

\* POST /start, backend.py:363-370
Start ==
    /\ app = "serving"
    /\ StartCreates(bot_running)
    /\ CanCreate
    /\ bot_running' = TRUE
    /\ bot_task' = NewTask
    /\ task' = Created(task)
    /\ UNCHANGED <<history, last_signal, last_signal_time, external_signal_url,
                   app, manual, loop_emit_at, clock, gate_vars, appended, sniper_vars,
                   ens_vars>>

\* POST /stop, backend.py:372-380
Stop ==
    /\ app = "serving"
    /\ bot_running' = FALSE
    /\ task' = Cancelled(task, bot_task)
    /\ bot_task' = 0
    /\ UNCHANGED <<history, last_signal, last_signal_time, external_signal_url,
                   app, manual, loop_emit_at, clock, gate_vars, appended, sniper_vars,
                   ens_vars>>

\* on_cleanup, backend.py:442-448
OnCleanup ==
    /\ app = "serving"
    /\ app' = "closed"
    /\ bot_running' = FALSE
    /\ task' = Cancelled(task, bot_task)
    /\ UNCHANGED <<history, last_signal, last_signal_time, bot_task,
                   external_signal_url, manual, loop_emit_at, clock, gate_vars,
                   appended, sniper_vars,
                   ens_vars>>

\* POST /set_external with a url, backend.py:412-426
SetExternal ==
    /\ app = "serving"
    /\ external_signal_url' = "url"
    /\ UNCHANGED <<history, last_signal, last_signal_time, bot_running, bot_task,
                   task, app, manual, loop_emit_at, clock, gate_vars, appended,
                   sniper_vars,
                   ens_vars>>

\* POST /signal up to its await tg_send, backend.py:392-406
ManualBegin(pair, action) ==
    /\ app = "serving"
    /\ Cardinality(manual) < MaxManual
    /\ Normalize(pair) \in PairSet
    /\ manual' = manual \cup {[pair |-> Normalize(pair), action |-> Upper(action)]}
    /\ UNCHANGED <<history, last_signal, last_signal_time, bot_running, bot_task,
                   external_signal_url, task, app, loop_emit_at, clock, gate_vars,
                   appended, sniper_vars,
                   ens_vars>>

\* POST /signal after tg_send returned, backend.py:407-410
ManualEnd(m) ==
    /\ m \in manual
    /\ manual' = manual \ {m}
    /\ last_signal' = [last_signal EXCEPT ![m.pair] = m.action]
    /\ last_signal_time' = [last_signal_time EXCEPT ![m.pair] = clock]
    /\ UNCHANGED <<history, bot_running, bot_task, external_signal_url, task, app,
                   loop_emit_at, clock, gate_vars, appended, sniper_vars,
                   ens_vars>>

(* ------------------------------ sniper_loop ---------------------------- *)

\* fetches the sniper specification makes
MaxSniperFetches == 5
\* the "signal" and "datetime" values of the responses; the last of each
\* are texts that hold the separator of the key
SniperSignals == {"BUY", "SELL", "BUY-10:00"}
SniperTimes == {"10:00", "10:05", "10:00-10:05"}
SniperKeys == {"signal", "datetime", "open", "close"}

\* no iteration ran yet
NoFetch == [made |-> FALSE, pair |-> EURUSD, sig |-> [kind |-> "none", d |-> <<>>],
            sent |-> FALSE]

\* what `await fetch_signal(pair)` returns: None after any exception, else
\* the JSON value of the response: a dict (a function of its keys), or a
\* value that is no container (a number)
SniperValue(k) ==
    CASE k = "signal" -> SniperSignals
      [] k = "datetime" -> SniperTimes
      [] k = "open" -> {"1.0800"}
      [] OTHER -> {"1.0810"}

SniperDicts ==
    UNION {{d \in [K -> SniperSignals \cup SniperTimes \cup {"1.0800", "1.0810"}] :
              \A k \in K : d[k] \in SniperValue(k)} :
           K \in {{}, {"signal"}, {"datetime", "open", "close"}, SniperKeys}}

SniperResponses ==
    {[kind |-> "none", d |-> <<>>], [kind |-> "number", d |-> <<>>]}
    \cup {[kind |-> "dict", d |-> d] : d \in SniperDicts}

RECURSIVE Join(_)
\* the text of a symbol
Join(s) == IF s = <<>> THEN "" ELSE s[1] \o Join(Tail(s))

\* key = f"{pair}-{signal}-{time_local}", sniper_loop.py:90
SniperKey(pair, signal, time_local) ==
    Join(pair) \o "-" \o signal \o "-" \o time_local

\* a faulty iteration: the remembered key is not compared
SniperOutcomeNoDedup(sig, pair, last) ==
    IF sig.kind = "none" \/ (sig.kind = "dict" /\ DOMAIN sig.d = {}) THEN "skip"
    ELSE IF sig.kind = "number" THEN "TypeError"
    ELSE IF "signal" \notin DOMAIN sig.d THEN "skip"
    ELSE IF ~({"datetime", "open", "close"} \subseteq DOMAIN sig.d) THEN "KeyError"
    ELSE "send"

\* one iteration of `for pair in PAIRS`, sniper_loop.py:79-105, on the
\* response sig: "skip" (continue), "send", or the exception that escapes
SniperOutcome(sig, pair, last) ==
    IF sig.kind = "none" \/ (sig.kind = "dict" /\ DOMAIN sig.d = {}) THEN "skip"
    ELSE IF sig.kind = "number" THEN "TypeError"
    ELSE IF "signal" \notin DOMAIN sig.d THEN "skip"
    ELSE IF ~({"datetime", "open", "close"} \subseteq DOMAIN sig.d) THEN "KeyError"
    ELSE IF pair \in DOMAIN last
            /\ last[pair] = SniperKey(pair, sig.d["signal"], sig.d["datetime"])
    THEN "skip"
    ELSE "send"

\* await fetch_signal(pair) returns and the iteration runs
SniperFetch(sig) ==
    /\ sn_pc = "fetch"
    /\ sn_n < MaxSniperFetches
    /\ sn_n' = sn_n + 1
    /\ LET pair == SNIPER_PAIRS[sn_i]
           o == SniperOutcome(sig, pair, sn_last_signal)
       IN  /\ sn_last_signal' =
                 IF o = "send"
                 THEN Put(sn_last_signal, pair,
                          SniperKey(pair, sig.d["signal"], sig.d["datetime"]))
                 ELSE sn_last_signal
           /\ sn_sent' =
                 IF o = "send"
                 THEN [sn_sent EXCEPT ![pair] =
                          Append(@, <<sig.d["signal"], sig.d["datetime"]>>)]
                 ELSE sn_sent
           /\ sn_fetched' = [made |-> TRUE, pair |-> pair, sig |-> sig,
                             sent |-> (o = "send")]
           /\ sn_pc' = IF o \in {"TypeError", "KeyError"} THEN "crashed"
                       ELSE IF sn_i = Len(SNIPER_PAIRS) THEN "sleep" ELSE "fetch"
           /\ sn_i' = IF o \in {"TypeError", "KeyError"} THEN sn_i
                      ELSE IF sn_i = Len(SNIPER_PAIRS) THEN 1 ELSE sn_i + 1
    /\ UNCHANGED <<backend_vars, clock, gate_vars, appended,
                   ens_vars>>

\* await asyncio.sleep(20) returns, sniper_loop.py:107
SniperSleepDone ==
    /\ sn_pc = "sleep"
    /\ sn_pc' = "fetch"
    /\ UNCHANGED <<backend_vars, clock, gate_vars, appended, sn_i, sn_last_signal,
                   sn_sent, sn_n, sn_fetched,
                   ens_vars>>

(* ------------------------------ ensemble_decision alone ---------------- *)

\* the longest series ensemble_decision is called on
MaxSeries == 5
\* the prices of the series, in ticks; a price response of "0" is a float
EnsPrices == {0, 1, 2}
\* the hints: none, or an action with a confidence in hundredths
EnsHints ==
    {None} \cup {[action |-> a, confidence |-> c] : a \in {"BUY", "SELL"},
                                                  c \in {30, EXT_DEFAULT_CONF, 90}}
NoCall == [made |-> FALSE, ext |-> None, out |-> <<NoneS, 0>>]

\* one more price in the series
EnsAppend(x) ==
    /\ Len(ens_hist) < MaxSeries
    /\ ens_hist' = Append(ens_hist, x)
    /\ ens_call' = NoCall
    /\ UNCHANGED <<backend_vars, clock, gate_vars, appended, sniper_vars>>

\* ensemble_decision(pair, ext, ens_hist)
EnsCall(ext) ==
    /\ ens_call' = [made |-> TRUE, ext |-> ext,
                    out |-> ensemble_decision(EURUSD, ext, ens_hist)]
    /\ UNCHANGED <<backend_vars, clock, gate_vars, appended, sniper_vars, ens_hist>>

(* ------------------------------ specifications ------------------------- *)

Init ==
    /\ history = [p \in PairSet |-> <<>>]
    /\ last_signal = [p \in PairSet |-> NoneS]
    /\ last_signal_time = [p \in PairSet |-> 0]
    /\ bot_running = FALSE
    /\ bot_task = 0
    /\ external_signal_url = ""
    /\ task = [t \in Tasks |-> IdleTask]
    /\ app = "init"
    /\ manual = {}
    /\ clock = StartTime
    /\ LAST_SIGNAL = <<>>
    /\ COOLDOWN = <<>>
    /\ gate_last = [symbol |-> EURUSD, direction |-> NoneS, confidence |-> 0,
                    now |-> StartTime, ret |-> FALSE]
    /\ gate_n = 0
    /\ gate_emit_at = [p \in PairSet |-> -1]
    /\ loop_emit_at = [p \in PairSet |-> -1]
    /\ appended = [p \in PairSet |-> <<>>]
    /\ sn_pc = "fetch"
    /\ sn_i = 1
    /\ sn_last_signal = <<>>
    /\ sn_sent = [p \in SniperPairSet |-> <<>>]
    /\ sn_n = 0
    /\ sn_fetched = NoFetch
    /\ ens_hist = <<>>
    /\ ens_call = NoCall

\* the steps of one bot_loop task, its sleeps `late` seconds late and its
\* clock stopping at limit
BotStep(t, late, limit) ==
    \/ BotEnter(t)
    \/ \E ext \in ExtLists : BotFetchExternal(t, ext)
    \/ \E f \in FetchOutcomes : BotFetchPrices(t, f)
    \/ \E ok \in BOOLEAN : BotSendDone(t, ok)
    \/ BotSleepDone(t, late, limit)

\* the polling loop: the application starts, an external signal url may be
\* set, and bot_loop runs its cycles on arbitrary outcomes of the price
\* source, of the external signal source and of the notifier
Next ==
    \/ OnStartup
    \/ SetExternal
    \/ \E t \in Tasks : BotStep(t, 0, MaxClock)

Spec == Init /\ [][Next]_vars

\* the application: its life cycle and the /start, /stop and /signal
\* requests, in any interleaving with the cycles of the bot_loop tasks (no
\* external signal url is set here)
NextApp ==
    \/ OnStartup
    \/ Start
    \/ Stop
    \/ OnCleanup
    \/ \E pair \in ManualPairs, action \in ManualActions : ManualBegin(pair, action)
    \/ \E m \in manual : ManualEnd(m)
    \/ \E t \in Tasks : BotStep(t, 0, MaxAppClock)

SpecApp == Init /\ [][NextApp]_vars

\* the polling loop on a busy event loop: every sleep ends MaxLate seconds
\* late, so that more than the configured COOLDOWN lies between two cycles
NextLate ==
    \/ OnStartup
    \/ SetExternal
    \/ \E t \in Tasks : BotStep(t, MaxLate, MaxLateClock)

SpecLate == Init /\ [][NextLate]_vars

\* should_send_signal under arbitrary calls and a clock that never runs back
NextGate ==
    \/ \E symbol \in PairSet, direction \in Directions, confidence \in Confidences :
         GateCall(symbol, direction, confidence)
    \/ \E d \in TickSteps : GateTick(d)

SpecGate == Init /\ [][NextGate]_vars

\* the price history alone, under arbitrary outcomes of the price source
NextHist == \E f \in FetchOutcomes : HistoryAppend(f.results)

SpecHist == Init /\ [][NextHist]_vars

\* sniper_loop under arbitrary responses of the backend
NextSniper ==
    \/ \E sig \in SniperResponses : SniperFetch(sig)
    \/ SniperSleepDone

SpecSniper == Init /\ [][NextSniper]_vars

\* ensemble_decision under arbitrary series and hints
NextEns ==
    \/ \E x \in EnsPrices : EnsAppend(x)
    \/ \E ext \in EnsHints : EnsCall(ext)

SpecEns == Init /\ [][NextEns]_vars

(* ------------------------------ properties ----------------------------- *)

AliveTasks == {t \in Tasks : task[t].status = "alive"}

\* C1: for every symbol, history[symbol] is never longer than MAX_HISTORY;
\* it holds the last appended prices in arrival order, and exactly
\* MAX_HISTORY of them once more than MAX_HISTORY prices were appended.
HistoryIsLastAppended ==
    \A p \in PairSet :
        /\ Len(history[p]) <= MAX_HISTORY
        /\ Len(history[p]) <= Len(appended[p])
        /\ Len(appended[p]) > MAX_HISTORY => Len(history[p]) = MAX_HISTORY
        /\ Len(appended[p]) <= MAX_HISTORY => Len(history[p]) = Len(appended[p])
        /\ \A k \in 1..Len(history[p]) :
             history[p][k] = appended[p][Len(appended[p]) - Len(history[p]) + k]

\* a buffer that evicted at least two prices and differs from its first fill
HistoryOverflowed ==
    \E p \in PairSet :
        /\ Len(appended[p]) >= MAX_HISTORY + 2
        /\ history[p] # SubSeq(appended[p], 1, MAX_HISTORY)

\* C2: a call of should_send_signal made less than SIGNAL_COOLDOWN after
\* the last emitting call for its symbol returns False and leaves
\* LAST_SIGNAL and COOLDOWN unchanged, whatever its direction; so two
\* emitting calls for one symbol are at least SIGNAL_COOLDOWN apart; and a
\* confident call with a new direction emits once the cooldown elapsed.
GateCooldownUnconditional ==
    [][gate_n' # gate_n =>
         /\ ( /\ gate_emit_at[gate_last'.symbol] >= 0
              /\ gate_last'.now - gate_emit_at[gate_last'.symbol] < SIGNAL_COOLDOWN )
            => ( /\ ~gate_last'.ret
                 /\ LAST_SIGNAL' = LAST_SIGNAL
                 /\ COOLDOWN' = COOLDOWN )
         /\ ( gate_last'.ret /\ gate_emit_at[gate_last'.symbol] >= 0 )
            => gate_last'.now - gate_emit_at[gate_last'.symbol] >= SIGNAL_COOLDOWN
         /\ ( /\ gate_emit_at[gate_last'.symbol] >= 0
              /\ gate_last'.now - gate_emit_at[gate_last'.symbol] >= SIGNAL_COOLDOWN
              /\ gate_last'.confidence >= MIN_CONFIDENCE
              /\ gate_last'.direction # LAST_SIGNAL[gate_last'.symbol] )
            => ( /\ gate_last'.ret
                 /\ LAST_SIGNAL'[gate_last'.symbol] = gate_last'.direction
                 /\ COOLDOWN'[gate_last'.symbol] = gate_last'.now )
    ]_vars

\* a confident call with a new direction was suppressed within the cooldown
GateSuppressedChange ==
    /\ gate_n > 0
    /\ ~gate_last.ret
    /\ gate_last.confidence >= MIN_CONFIDENCE
    /\ gate_emit_at[gate_last.symbol] >= 0
    /\ gate_last.now > gate_emit_at[gate_last.symbol]
    /\ gate_last.now - gate_emit_at[gate_last.symbol] < SIGNAL_COOLDOWN
    /\ gate_last.direction \in {"BUY", "SELL"}
    /\ gate_last.direction # LAST_SIGNAL[gate_last.symbol]

\* C3: should_send_signal called with the direction None returns False and
\* leaves LAST_SIGNAL and COOLDOWN unchanged, for every gate state, every
\* confidence and every time.
GateNeverEmitsNone ==
    [][(gate_n' # gate_n /\ gate_last'.direction = NoneS) =>
         ( /\ ~gate_last'.ret
           /\ LAST_SIGNAL' = LAST_SIGNAL
           /\ COOLDOWN' = COOLDOWN )
    ]_vars

\* C4: two signals bot_loop emits for one symbol are at least the cooldown
\* period apart, whatever their directions.
LoopEmissionsCooldownApart ==
    [][\A p \in PairSet :
         (loop_emit_at'[p] # loop_emit_at[p] /\ loop_emit_at[p] >= 0)
         => loop_emit_at'[p] - loop_emit_at[p] >= COOLDOWN_CFG
    ]_vars

\* C5: history[symbol] changes only by the append of the price a fetch of
\* this cycle delivered for the symbol, so a cycle whose fetch yields no
\* price for the symbol ends with history[symbol] as it started; after the
\* fetch the task is still running, and after its sleep it starts the next
\* cycle.
FailedFetchKeepsHistory ==
    [][/\ \A p \in PairSet :
            history'[p] # history[p] =>
              \E t \in Tasks :
                /\ task[t].status = "alive" /\ task[t].pc = "fetch_prices"
                /\ task'[t].prices[p] # None
                /\ task'[t].err # "fetch"
                /\ history'[p] = DequeAppend(history[p], task'[t].prices[p][1])
       /\ \A t \in Tasks :
            ( /\ task[t].status = "alive" /\ task[t].pc = "fetch_prices"
              /\ task'[t] # task[t] )
            => ( /\ task'[t].status = "alive"
                 /\ task'[t].pc \in TgStates \cup {"sleep"}
                 /\ \A p \in PairSet :
                      task'[t].prices[p] = None => history'[p] = history[p] )
       /\ \A t \in Tasks :
            ( /\ task[t].status = "alive" /\ task[t].pc = "sleep"
              /\ task'[t] # task[t] )
            => ( task'[t].status = "alive" /\ task'[t].pc = "fetch_ext" )
    ]_vars

\* a cycle ended in which one pair got a price and another, whose history
\* is not empty, got none
CycleWithPartialFailure ==
    \E t \in Tasks, p \in PairSet, q \in PairSet :
        /\ task[t].status = "alive" /\ task[t].pc = "sleep"
        /\ task[t].prices[p] = None
        /\ task[t].prices[q] # None
        /\ history[p] # <<>>
        /\ history[q] # <<>>

\* C6: in a cycle whose price fetch failed for a symbol, no signal is
\* emitted for that symbol: a task waiting in tg_send for a pair's signal
\* fetched a price for that pair in this cycle.
NoSignalWithoutPrice ==
    \A t \in Tasks :
        (task[t].status = "alive" /\ task[t].pc \in TgStates)
        => task[t].prices[task[t].msg.pair] # None

\* C7: an error raised while one symbol is processed leaves no other symbol
\* of the cycle without its evaluation.
ErrorConfinedToSymbol ==
    \A t \in Tasks : task[t].err \in {"ext", "ind"} => task[t].skipped = {}

\* C8: no payload of the backend makes an exception escape sniper_loop.
SniperNeverCrashes == sn_pc # "crashed"

\* C9: a step in which tg_send fails leaves history unchanged, changes
\* last_signal and last_signal_time only for a pair whose next signal is
\* emitted in the same step (the failed signal's record is not rolled
\* back), and leaves the task running, at its next tg_send or at the sleep
\* before the next cycle; while a signal is in tg_send its record stands.
DeliveryFailureHarmless ==
    /\ [](\A t \in Tasks :
            (task[t].status = "alive" /\ task[t].pc \in TgStates)
            => ( /\ last_signal[task[t].msg.pair] = task[t].msg.dec
                 /\ last_signal_time[task[t].msg.pair] = clock ))
    /\ [][\A t \in Tasks :
            ( /\ task[t].status = "alive" /\ task[t].pc \in TgStates
              /\ task'[t] # task[t] /\ task'[t].tg = "failed" )
            => ( /\ history' = history
                 /\ task'[t].status = "alive"
                 /\ task'[t].pc \in TgStates \cup {"sleep"}
                 /\ \A p \in PairSet :
                      ( \/ last_signal'[p] # last_signal[p]
                        \/ last_signal_time'[p] # last_signal_time[p] )
                      => ( /\ task'[t].pc \in TgStates
                           /\ task'[t].msg.pair = p
                           /\ last_signal'[p] = task'[t].msg.dec
                           /\ last_signal_time'[p] = clock' ) )
      ]_vars

\* a cycle ended after a failed delivery, the signal emitted in it recorded
FailedDeliveryRecorded ==
    \E t \in Tasks, p \in PairSet :
        /\ task[t].status = "alive" /\ task[t].pc = "sleep"
        /\ task[t].tg = "failed"
        /\ last_signal[p] \in {"BUY", "SELL"}
        /\ last_signal_time[p] = clock
        /\ loop_emit_at[p] = clock

\* C10: under any interleaving of startup, /start, /stop and cleanup at
\* most one bot_loop task is running.
OneLoopTask == Cardinality(AliveTasks) <= 1

\* a task was cancelled and the task created after it runs its cycles
TaskRestarted ==
    \E t \in Tasks, u \in Tasks :
        /\ task[t].status = "cancelled"
        /\ task[u].status = "alive"
        /\ task[u].pc \in {"fetch_prices", "tg_ext", "tg_ind", "sleep"}

\* C11: a call of should_send_signal for a symbol with no signal recorded
\* returns True and records the call's direction and time when its
\* confidence is at least MIN_CONFIDENCE; with a lower confidence it
\* returns False and the symbol still has no signal recorded.
GateFirstSignal ==
    [][(gate_n' # gate_n /\ gate_last'.symbol \notin DOMAIN LAST_SIGNAL) =>
         /\ gate_last'.confidence >= MIN_CONFIDENCE
            => ( /\ gate_last'.ret
                 /\ gate_last'.symbol \in DOMAIN LAST_SIGNAL'
                 /\ gate_last'.symbol \in DOMAIN COOLDOWN'
                 /\ LAST_SIGNAL'[gate_last'.symbol] = gate_last'.direction
                 /\ COOLDOWN'[gate_last'.symbol] = gate_last'.now )
         /\ gate_last'.confidence < MIN_CONFIDENCE
            => ( /\ ~gate_last'.ret
                 /\ gate_last'.symbol \notin DOMAIN LAST_SIGNAL'
                 /\ gate_last'.symbol \notin DOMAIN COOLDOWN' )
    ]_vars

\* after a call of too low a confidence left its symbol without a signal,
\* the first confident call emitted and was recorded
GateFirstCallEmitted ==
    /\ gate_n = 2
    /\ gate_last.ret
    /\ gate_last.now > StartTime
    /\ gate_last.direction \in {"BUY", "SELL"}
    /\ DOMAIN LAST_SIGNAL = {gate_last.symbol}
    /\ LAST_SIGNAL[gate_last.symbol] = gate_last.direction
    /\ COOLDOWN[gate_last.symbol] = gate_last.now

\* C12: a call of should_send_signal with a confidence of at least
\* MIN_CONFIDENCE, made SIGNAL_COOLDOWN or more after the symbol's recorded
\* time, returns True exactly when its direction differs from the recorded
\* one; it then records its direction and time, and otherwise changes
\* nothing.
GateAfterCooldown ==
    [][( /\ gate_n' # gate_n
         /\ gate_last'.symbol \in DOMAIN LAST_SIGNAL
         /\ gate_last'.now - COOLDOWN[gate_last'.symbol] >= SIGNAL_COOLDOWN
         /\ gate_last'.confidence >= MIN_CONFIDENCE ) =>
         /\ gate_last'.ret <=> (gate_last'.direction # LAST_SIGNAL[gate_last'.symbol])
         /\ gate_last'.ret
            => ( /\ LAST_SIGNAL'[gate_last'.symbol] = gate_last'.direction
                 /\ COOLDOWN'[gate_last'.symbol] = gate_last'.now )
         /\ ~gate_last'.ret => (LAST_SIGNAL' = LAST_SIGNAL /\ COOLDOWN' = COOLDOWN)
    ]_vars

\* a confident call repeating the recorded direction was suppressed after
\* the cooldown had elapsed
GateRepeatSuppressed ==
    /\ gate_n > 0
    /\ ~gate_last.ret
    /\ gate_last.confidence >= MIN_CONFIDENCE
    /\ gate_last.symbol \in DOMAIN LAST_SIGNAL
    /\ gate_last.now - COOLDOWN[gate_last.symbol] >= SIGNAL_COOLDOWN
    /\ gate_last.direction = LAST_SIGNAL[gate_last.symbol]

\* C13: a call of should_send_signal changes LAST_SIGNAL and COOLDOWN
\* exactly when it returns True; it then sets both entries of its symbol,
\* to its direction and its time; the entries of every other symbol are
\* never changed; a call with a confidence below MIN_CONFIDENCE returns
\* False.
GateUpdateBehindEmit ==
    [][gate_n' # gate_n =>
         /\ gate_last'.ret <=> (LAST_SIGNAL' # LAST_SIGNAL)
         /\ gate_last'.ret <=> (COOLDOWN' # COOLDOWN)
         /\ gate_last'.ret
            => ( /\ LAST_SIGNAL'[gate_last'.symbol] = gate_last'.direction
                 /\ COOLDOWN'[gate_last'.symbol] = gate_last'.now )
         /\ \A q \in PairSet \ {gate_last'.symbol} :
              /\ q \in DOMAIN LAST_SIGNAL' <=> q \in DOMAIN LAST_SIGNAL
              /\ q \in DOMAIN COOLDOWN' <=> q \in DOMAIN COOLDOWN
              /\ q \in DOMAIN LAST_SIGNAL => LAST_SIGNAL'[q] = LAST_SIGNAL[q]
              /\ q \in DOMAIN COOLDOWN => COOLDOWN'[q] = COOLDOWN[q]
         /\ gate_last'.confidence < MIN_CONFIDENCE => ~gate_last'.ret
    ]_vars

\* a call emitted for one symbol while another symbol had its own record,
\* made at another time
GateEmittedBesideOther ==
    /\ gate_last.ret
    /\ DOMAIN LAST_SIGNAL = PairSet
    /\ \E q \in PairSet \ {gate_last.symbol} : COOLDOWN[q] # gate_last.now

\* C14: without an override ensemble_decision returns (None, 0.0) for a
\* series shorter than MIN_HISTORY; and as long as no external signal url
\* is set (and no manual signal is sent) a pair whose history is shorter
\* than MIN_HISTORY has no signal emitted and last_signal unset.
NoSignalBeforeMinHistory ==
    /\ \A p \in PairSet :
         Len(history[p]) < MIN_HISTORY
         => ensemble_decision(p, None, history[p]) = <<NoneS, 0>>
    /\ external_signal_url = ""
       => \A p \in PairSet :
            Len(history[p]) < MIN_HISTORY
            => ( /\ last_signal[p] = NoneS
                 /\ last_signal_time[p] = 0
                 /\ loop_emit_at[p] = -1
                 /\ \A t \in Tasks :
                      (task[t].status = "alive" /\ task[t].pc \in TgStates)
                      => task[t].msg.pair # p )

\* without external signals one pair got its first signal with exactly
\* MIN_HISTORY prices while the other, with fewer prices, two of them
\* enough to fill both SMA windows, has none
FirstSignalAtMinHistory ==
    /\ external_signal_url = ""
    /\ \E p \in PairSet, q \in PairSet :
         /\ Len(history[p]) = MIN_HISTORY
         /\ last_signal[p] \in {"BUY", "SELL"}
         /\ Len(history[q]) = MIN_HISTORY - 1
         /\ history[q][1] # history[q][2]
         /\ last_signal[q] = NoneS

\* C15: with a hint, ensemble_decision halves the hint's confidence exactly
\* when the RSI is computable from the series (RSI_PERIOD + 1 prices) and
\* the hint is BUY with RSI > 80 or SELL with RSI < 20; it returns the
\* hint's direction when the resulting confidence is at least
\* CONF_THRESHOLD and None otherwise, with the resulting confidence.
OverrideDampedWhenRsiComputable ==
    (ens_call.made /\ ens_call.ext # None) =>
        LET r == rsi(ens_hist, RSI_PERIOD)
            halved ==
                /\ r # None
                /\ \/ ens_call.ext.action = "BUY" /\ RatGT(r, <<RSI_DAMP_BUY, 1>>)
                   \/ ens_call.ext.action = "SELL" /\ RatGT(<<RSI_DAMP_SELL, 1>>, r)
            conf == IF halved THEN ens_call.ext.confidence \div 2
                    ELSE ens_call.ext.confidence
        IN  ens_call.out =
              <<IF conf >= CONF_THRESHOLD THEN ens_call.ext.action ELSE NoneS, conf>>

\* C16: without a hint the vote totals of ensemble_decision are the
\* weighted sums of the table: a two-sided rule whose indicators are
\* defined (EMA, SMA) adds its weight to exactly one side, also when an
\* indicator's value is 0; the RSI and Bollinger rules add their weight
\* only when their condition holds; an undefined indicator adds nothing.
\* (The series here are shorter than the MACD rule needs, so it adds
\* nothing to either side.)
VotesMatchTable ==
    (ens_call.made /\ ens_call.ext = None /\ Len(ens_hist) >= MIN_HISTORY) =>
        LET last == ens_hist[Len(ens_hist)]
            e9 == ema(ens_hist, EMA_FAST)
            e21 == ema(ens_hist, EMA_SLOW)
            s3 == sma(ens_hist, SMA_FAST)
            s8 == sma(ens_hist, SMA_SLOW)
            r == rsi(ens_hist, RSI_PERIOD)
            bb == bollinger(ens_hist, BB_PERIOD, BB_MULT)
            ema_defined == e9 # None /\ e21 # None
            sma_defined == s3 # None /\ s8 # None
        IN  /\ vote_buy(ens_hist) =
                  (IF ema_defined /\ RatGT(e9, e21) THEN W_EMA ELSE 0)
                + (IF sma_defined /\ RatGT(s3, s8) THEN W_SMA ELSE 0)
                + (IF r # None /\ RatGT(<<RSI_BUY_BELOW, 1>>, r) THEN W_RSI ELSE 0)
                + (IF bb # None /\ BelowLow(last, bb) THEN W_BB ELSE 0)
            /\ vote_sell(ens_hist) =
                  (IF ema_defined /\ ~RatGT(e9, e21) THEN W_EMA ELSE 0)
                + (IF sma_defined /\ ~RatGT(s3, s8) THEN W_SMA ELSE 0)
                + (IF r # None /\ RatGT(r, <<RSI_SELL_ABOVE, 1>>) THEN W_RSI ELSE 0)
                + (IF bb # None /\ AboveUp(last, bb) THEN W_BB ELSE 0)

\* C17: bot_loop sends a notification for a decision only if its direction
\* differs from the last_signal recorded for the pair at that moment,
\* however long ago that signal was recorded; a decision that repeats the
\* recorded direction changes neither last_signal nor last_signal_time.
LoopNeverRepeatsDirection ==
    [][/\ \A t \in Tasks :
            ( /\ task'[t] # task[t]
              /\ task'[t].status = "alive" /\ task'[t].pc \in TgStates )
            => ( /\ task'[t].msg.dec \in {"BUY", "SELL"}
                 /\ task'[t].msg.dec # last_signal[task'[t].msg.pair]
                 /\ last_signal'[task'[t].msg.pair] = task'[t].msg.dec )
       /\ \A p \in PairSet :
            ( \/ last_signal'[p] # last_signal[p]
              \/ last_signal_time'[p] # last_signal_time[p] )
            => \E t \in Tasks :
                 /\ task'[t] # task[t]
                 /\ task'[t].status = "alive" /\ task'[t].pc \in TgStates
                 /\ task'[t].msg.pair = p
    ]_vars

\* a cycle met a decision that repeats a pair's recorded direction, every
\* signal having been recorded more than COOLDOWN seconds before
RepeatAfterCooldown ==
    \E t \in Tasks :
        /\ task[t].status = "alive" /\ task[t].pc = "sleep"
        /\ task[t].err \in {"ext", "ind"}
        /\ \E p \in PairSet : last_signal[p] \in {"BUY", "SELL"}
        /\ \A p \in PairSet : clock - last_signal_time[p] > COOLDOWN_CFG

\* C18: last_signal[p] and last_signal_time[p] are always written
\* together: in every state, whatever task was cancelled at whatever await
\* and whatever /signal request is in flight, last_signal[p] is unset
\* exactly when last_signal_time[p] still has its initial value 0; and a
\* step changes last_signal_time[p] whenever it changes last_signal[p].
SignalAndTimeTogether ==
    /\ [](\A p \in PairSet : last_signal[p] = NoneS <=> last_signal_time[p] = 0)
    /\ [][\A p \in PairSet :
            last_signal'[p] # last_signal[p]
            => ( /\ last_signal'[p] # NoneS
                 /\ last_signal_time'[p] = clock' )
      ]_vars

\* the loop recorded a signal, its task was cancelled at an await of the
\* same cycle and no task is left, while a /signal request waits in tg_send
CancelledInSend ==
    \E t \in Tasks, p \in PairSet :
        /\ task[t].status = "cancelled"
        /\ loop_emit_at[p] = clock
        /\ last_signal[p] \in {"BUY", "SELL"}
        /\ last_signal_time[p] = clock
        /\ manual # {}
        /\ \A u \in Tasks : task[u].status # "alive"

\* C19: every spelling of a pair, with or without the "/" and in either
\* letter case, resolves to the pair's key: when the loop processes an
\* external signal whose pair is any such spelling of p, with a confidence
\* of at least CONF_THRESHOLD, while p has no price history and no last
\* signal, the signal is applied to p: last_signal[p] becomes its action.
SpellingsResolveToOneKey ==
    [][\A t \in Tasks : \A p \in PairSet :
        LET lower(c) == CASE c = "E" -> "e" [] c = "U" -> "u" [] c = "R" -> "r"
                          [] c = "S" -> "s" [] c = "D" -> "d" [] c = "G" -> "g"
                          [] c = "B" -> "b" [] c = "P" -> "p" [] OTHER -> c
            Lower(s) == [k \in 1..Len(s) |-> lower(s[k])]
            Spellings == {p, NoSlash(p), Lower(p), Lower(NoSlash(p))}
        IN  ( /\ task[t].status = "alive"
              /\ task[t].pc = "fetch_prices"
              /\ task'[t].pc # "fetch_prices"
              /\ task'[t].err # "fetch"
              /\ Len(task[t].ext_list) = 1
              /\ task[t].ext_list[1].pair \in Spellings
              /\ task[t].ext_list[1].confidence >= CONF_THRESHOLD
              /\ history[p] = <<>>
              /\ last_signal[p] = NoneS )
            => last_signal'[p] = Upper(task[t].ext_list[1].action)
      ]_vars

\* C20: sniper_loop sends no duplicate: two consecutive messages for one
\* pair never carry the same signal and datetime; an iteration whose fetch
\* failed or whose response has no "signal" sends nothing; and an iteration
\* that sends nothing leaves the remembered keys unchanged.
SniperNoDuplicates ==
    /\ [](\A p \in SniperPairSet : \A k \in 1..(Len(sn_sent[p]) - 1) :
            sn_sent[p][k] # sn_sent[p][k + 1])
    /\ []( ( /\ sn_fetched.made
             /\ \/ sn_fetched.sig.kind = "none"
                \/ "signal" \notin DOMAIN sn_fetched.sig.d )
           => ~sn_fetched.sent )
    /\ [][ (sn_n' # sn_n /\ ~sn_fetched'.sent)
           => (sn_last_signal' = sn_last_signal /\ sn_sent' = sn_sent) ]_vars

\* a second message went out for a pair, and the iteration after it fetched
\* that message's signal and datetime again and sent nothing
DuplicateSuppressed ==
    /\ sn_fetched.made /\ ~sn_fetched.sent
    /\ sn_pc # "crashed"
    /\ sn_fetched.sig.kind = "dict"
    /\ SniperKeys \subseteq DOMAIN sn_fetched.sig.d
    /\ Len(sn_sent[sn_fetched.pair]) = 2
    /\ sn_sent[sn_fetched.pair][2]
         = <<sn_fetched.sig.d["signal"], sn_fetched.sig.d["datetime"]>>

=============================================================================
